---- MODULE Spec2Model ----
(***************************************************************************)
(* Quiz client (script.js with the setup modal) as a state machine.         *)
(*                                                                         *)
(* The browser runs one handler at a time, so every handler is one atomic   *)
(* action.  setTimeout callbacks wait in the bag `pending`, setInterval     *)
(* callbacks are the live ids in `intervals`, and outstanding fetches are   *)
(* the bag `inflight`; the event loop picks any of them, so a delayed       *)
(* callback may fire arbitrarily late.                                      *)
(*                                                                         *)
(* What the page shows is kept only where the script reads it back: the     *)
(* active section, the modal, and the option buttons of the container.      *)
(* A button is clickable only while its section is the active one           *)
(* (showSection keeps exactly one section active); the keydown handler is   *)
(* gated by the script itself.  Question texts are sequences of characters  *)
(* so that trim() is computed.  The explanation field of a question and     *)
(* the texts written to the page are not modelled, except the values that   *)
(* finishQuiz shows; the page is taken to have the loadingOverlay element   *)
(* that showLoading looks up, and to start with the home section active.    *)
(*                                                                         *)
(* Six specifications share the handlers: Spec (the session protocol),      *)
(* SpecPlay (answering a started quiz), SpecTimer (the countdown with       *)
(* selections), SpecIdle (the countdown of a quiz left alone), SpecRound    *)
(* (whole start and generate-more rounds) and SpecMore (generate-more       *)
(* rounds while the quiz is played); SpecServe puts the server in front of  *)
(* the rounds.  The server as a process of its own (rate limiter, checks   *)
(* of the request, model candidates, normalization) is specified by         *)
(* SpecLimit, SpecServer and SpecNormalize.                                 *)
(***************************************************************************)
EXTENDS Integers, Sequences, FiniteSets, Bags, TLC

VARIABLES quizData, currentQuestionIndex, selectedAnswers, score, timeLeft,
          timerHandle, quizStartTime, previousQuestions, currentTopic,
          currentCount, section, modalOpen, nButtons, btnDisabled,
          intervals, pending, inflight, disp, last, srv

vars == <<quizData, currentQuestionIndex, selectedAnswers, score, timeLeft,
          timerHandle, quizStartTime, previousQuestions, currentTopic,
          currentCount, section, modalOpen, nButtons, btnDisabled,
          intervals, pending, inflight, disp, last, srv>>

(***************************************************************************)
(* Bounds of the model.                                                     *)
(***************************************************************************)
\* longest question array of one response
MaxResp == 2
\* the score counter is capped (the code has no upper limit)
MaxScore == 2
\* setTimeout callbacks waiting at one time
MaxPending == 2
\* fetches outstanding at one time
MaxInFlight == 2
\* interval ticks allowed after the countdown has reached zero
MaxOverrun == 1
\* number of option keys the user presses ('1' .. )
MaxKey == 2
\* requests of one address counted beyond the rate limit
MaxExcess == 1
\* the server's clock stops after this many half rate windows
MaxClock == 2
\* requests of the second address that the limiter counts at one time
MaxOther == 2

(***************************************************************************)
(* Program constants.                                                       *)
(***************************************************************************)
QUESTION_SECONDS == 30
DEFAULT_COUNT == 5
MIN_COUNT == 1
MAX_COUNT == 20
MAX_OPTIONS == 4
MAX_ANSWER_INDEX == 3

\* timerHandle = null; interval ids are positive
NULL == 0

\* A value that may be missing or of the wrong type is a set: {} when it
\* is not a number (undefined, NaN, not an array), {n} when it is n.
NotNumber == {}
Num(n) == {n}
IsNumber(x) == x # {}
ValueOf(x) == CHOOSE n \in x : TRUE

(***************************************************************************)
(* Inputs.                                                                  *)
(***************************************************************************)
\* milliseconds since quizStartTime at which a handler may run
ClockInputs == {999, 61500}
\* what the user types as topic
TopicInputs == {<<>>, <<" ">>, <<" ", "x", "y", "z">>}
\* parseInt of what the user types as count (NaN for no number)
CountInputs == {Num(0), Num(3), Num(21)}

\* items of a response; options is the length of the options array
\* (NotNumber when it is not an array)
Item(q, o, a) ==
  [question |-> q, options |-> o, answer_index |-> a,
   answerIndex |-> NotNumber, correct |-> NotNumber]

RespItems ==
  { Item(<<" ", "a">>, Num(4), Num(1)),
    Item(<<"b">>,      Num(4), Num(0)),
    Item(<<" ">>,      Num(4), Num(0)) }

RECURSIVE SeqsUpTo(_, _)
SeqsUpTo(S, n) ==
  IF n = 0 THEN {<<>>}
  ELSE LET shorter == SeqsUpTo(S, n - 1)
       IN shorter \cup {Append(s, x) : s \in {t \in shorter : Len(t) = n - 1}, x \in S}

\* the arrays a response can carry: up to MaxResp items; the item with the
\* blank question, when there is one, comes first
RespArrays ==
  LET named == {i \in RespItems : i.question # <<" ">>}
  IN SeqsUpTo(named, MaxResp)
       \cup {<<i>> \o s : i \in RespItems \ named, s \in SeqsUpTo(named, MaxResp - 1)}

\* what a fetch of /generate-quiz can produce
Responses ==
  {[kind |-> "throw"], [kind |-> "status"], [kind |-> "notarray"]}
    \cup {[kind |-> "ok", arr |-> a] : a \in RespArrays}

(***************************************************************************)
(* String.prototype.trim                                                    *)
(***************************************************************************)
RECURSIVE TrimLeft(_)
TrimLeft(s) == IF s # <<>> /\ Head(s) = " " THEN TrimLeft(Tail(s)) ELSE s

RECURSIVE TrimRight(_)
TrimRight(s) ==
  IF s # <<>> /\ s[Len(s)] = " " THEN TrimRight(SubSeq(s, 1, Len(s) - 1)) ELSE s

Trim(s) == TrimRight(TrimLeft(s))

Min(a, b) == IF a < b THEN a ELSE b
Max(a, b) == IF a > b THEN a ELSE b

(***************************************************************************)
(* The script's globals and the parts of the page it reads back, as one     *)
(* record, so that the functions of the script compose as they do in the    *)
(* source.  `alert` is the message of the last alert() of the running       *)
(* handler ("" for none); `disp` is a history field: the score increments   *)
(* and the auto-advances scheduled since the last renderQuestion.           *)
(***************************************************************************)
NoSent == [topic |-> <<>>, count |-> 0]

\* `clock` is what `new Date() - quizStartTime` gives the running handler,
\* in milliseconds; `results` is what the handler wrote into the results
\* section: (none), or the four values of finishQuiz and the clock they
\* were computed from
NoResults ==
  [shown |-> FALSE, correct |-> 0, wrong |-> 0, percent |-> NotNumber,
   totalSecs |-> 0, clock |-> 0]

St ==
  [quizData |-> quizData, currentQuestionIndex |-> currentQuestionIndex,
   selectedAnswers |-> selectedAnswers, score |-> score, timeLeft |-> timeLeft,
   timerHandle |-> timerHandle, quizStartTime |-> quizStartTime,
   previousQuestions |-> previousQuestions, currentTopic |-> currentTopic,
   currentCount |-> currentCount, section |-> section, modalOpen |-> modalOpen,
   nButtons |-> nButtons, btnDisabled |-> btnDisabled, intervals |-> intervals,
   pending |-> pending, inflight |-> inflight, disp |-> disp, alert |-> "",
   sent |-> NoSent, clock |-> 0, results |-> NoResults]

\* the callbacks handed to setTimeout
FeedbackCb(index) == [cb |-> "feedback", index |-> index]
AdvanceCb == [cb |-> "advance", index |-> -1]

NoDisp == [scored |-> 0, advances |-> 0]

\* the history counters stop at 2
Sat(n) == IF n >= 2 THEN 2 ELSE n

showSection(S, name) == [S EXCEPT !.section = name]

showModal(S) == [S EXCEPT !.modalOpen = TRUE]

hideModal(S) == [S EXCEPT !.modalOpen = FALSE]

startQuiz(S) == showModal(S)

\* showLoading(true) empties the options container
showLoading(S, on) ==
  IF on THEN [S EXCEPT !.nButtons = 0, !.btnDisabled = FALSE] ELSE S

resetTimer(S) == [S EXCEPT !.timeLeft = QUESTION_SECONDS]

renderQuestion(S) ==
  IF Len(S.quizData) = 0
  THEN [S EXCEPT !.nButtons = 0, !.btnDisabled = FALSE]
  ELSE resetTimer([S EXCEPT
         !.nButtons = S.quizData[S.currentQuestionIndex + 1].options,
         !.btnDisabled = FALSE,
         !.disp = NoDisp])

\* setInterval returns an id that no live interval has
FreshInterval(S) ==
  CHOOSE i \in 1..(Cardinality(S.intervals) + 2) :
    /\ i \notin S.intervals \cup {S.timerHandle}
    /\ \A j \in 1..(i - 1) : j \in S.intervals \cup {S.timerHandle}

clearInterval(ivs, h) == ivs \ {h}

\* mutant of stopTimer: the handle is forgotten, the interval is not cleared
stopTimerLeak(S) == [S EXCEPT !.timerHandle = NULL]

stopTimer(S) ==
  IF S.timerHandle # NULL
  THEN [S EXCEPT !.intervals = clearInterval(S.intervals, S.timerHandle),
                 !.timerHandle = NULL]
  ELSE S

startTimer(S) ==
  LET id == FreshInterval(S)
      cleared == IF S.timerHandle # NULL
                 THEN clearInterval(S.intervals, S.timerHandle)
                 ELSE S.intervals
  IN [S EXCEPT !.timeLeft = QUESTION_SECONDS,
               !.quizStartTime = IF S.quizStartTime = "null" THEN "set" ELSE @,
               !.intervals = cleared \cup {id},
               !.timerHandle = id]

\* Math.round of num / den (num >= 0, den > 0)
RoundHalfUp(num, den) == (2 * num + den) \div (2 * den)

\* the values finishQuiz shows (percent is NaN for an empty list)
Results(S) ==
  LET total == Len(S.quizData)
  IN [shown |-> TRUE, correct |-> S.score, wrong |-> total - S.score,
      percent |-> IF total = 0 THEN NotNumber
                  ELSE Num(RoundHalfUp(100 * S.score, total)),
      totalSecs |-> Max(1, S.clock \div 1000), clock |-> S.clock]

finishQuiz(S) ==
  showSection([stopTimer(S) EXCEPT !.results = Results(S)], "results")

\* mutant of nextQuestion: the quiz is finished with its countdown running
nextQuestionFinishRunning(S) ==
  LET S1 == stopTimer(S)
  IN IF S1.currentQuestionIndex < Len(S1.quizData) - 1
     THEN startTimer(renderQuestion(
            [S1 EXCEPT !.currentQuestionIndex = S1.currentQuestionIndex + 1]))
     ELSE showSection(S, "results")

nextQuestion(S) ==
  LET S1 == stopTimer(S)
  IN IF S1.currentQuestionIndex < Len(S1.quizData) - 1
     THEN startTimer(renderQuestion(
            [S1 EXCEPT !.currentQuestionIndex = S1.currentQuestionIndex + 1]))
     ELSE finishQuiz(S1)

\* mutant of previousQuestion: the countdown is stopped and not started again
previousQuestionNoClock(S) ==
  IF S.currentQuestionIndex > 0
  THEN renderQuestion(
         [stopTimer(S) EXCEPT !.currentQuestionIndex = S.currentQuestionIndex - 1])
  ELSE S

\* mutant of previousQuestion: going back forgets the recorded answers
previousQuestionForget(S) ==
  IF S.currentQuestionIndex > 0
  THEN startTimer(renderQuestion(
         [stopTimer(S) EXCEPT !.currentQuestionIndex = S.currentQuestionIndex - 1,
                              !.selectedAnswers = <<>>]))
  ELSE S

previousQuestion(S) ==
  IF S.currentQuestionIndex > 0
  THEN startTimer(renderQuestion(
         [stopTimer(S) EXCEPT !.currentQuestionIndex = S.currentQuestionIndex - 1]))
  ELSE S

\* quizData[currentQuestionIndex] is undefined: reading q.answer_index throws
FeedbackThrows(S) == S.currentQuestionIndex + 1 > Len(S.quizData)

\* mutant of Scored: any selection counts
ScoredAnySelection(S, selectedIndex) == selectedIndex >= 0

Scored(S, selectedIndex) ==
  selectedIndex = S.quizData[S.currentQuestionIndex + 1].answer_index

showAnswerFeedback(S, selectedIndex) ==
  IF FeedbackThrows(S) THEN S
  ELSE [S EXCEPT
         !.score = IF Scored(S, selectedIndex) THEN S.score + 1 ELSE S.score,
         !.btnDisabled = (S.nButtons > 0),
         !.pending = S.pending (+) SetToBag({AdvanceCb}),
         !.disp = [scored |-> IF Scored(S, selectedIndex)
                              THEN Sat(S.disp.scored + 1) ELSE S.disp.scored,
                   advances |-> Sat(S.disp.advances + 1)]]

SetAnswer(answers, pos, index) ==
  [i \in (DOMAIN answers) \cup {pos} |-> IF i = pos THEN index ELSE answers[i]]

onOptionClicked(S, index) ==
  IF S.nButtons = 0 THEN S
  ELSE [S EXCEPT
         !.selectedAnswers = SetAnswer(S.selectedAnswers, S.currentQuestionIndex, index),
         !.pending = S.pending (+) SetToBag({FeedbackCb(index)})]

\* mutant of TimerTick: the expiry test is off by one
TimerTickLate(S) ==
  LET S1 == [S EXCEPT !.timeLeft = S.timeLeft - 1]
  IN IF S1.timeLeft < 0 THEN showAnswerFeedback(S1, -1) ELSE S1

\* the interval callback of startTimer
TimerTick(S) ==
  LET S1 == [S EXCEPT !.timeLeft = S.timeLeft - 1]
  IN IF S1.timeLeft <= 0 THEN showAnswerFeedback(S1, -1) ELSE S1

\* mutant of restartQuiz: the restart also forgets the questions shown
restartQuizClearLedger(S) ==
  LET S1 == [S EXCEPT !.currentQuestionIndex = 0, !.selectedAnswers = <<>>,
                      !.score = 0, !.quizStartTime = "set",
                      !.previousQuestions = <<>>]
  IN IF Len(S1.quizData) = 0 THEN startQuiz(S1)
     ELSE startTimer(renderQuestion(showSection(S1, "quiz")))

restartQuiz(S) ==
  LET S1 == [S EXCEPT !.currentQuestionIndex = 0, !.selectedAnswers = <<>>,
                      !.score = 0, !.quizStartTime = "set"]
  IN IF Len(S1.quizData) = 0 THEN startQuiz(S1)
     ELSE startTimer(renderQuestion(showSection(S1, "quiz")))

(***************************************************************************)
(* fetchAndAppendQuestions                                                  *)
(***************************************************************************)
CoerceOptions(o) == IF IsNumber(o) THEN Min(ValueOf(o), MAX_OPTIONS) ELSE 0

RawAnswerIndex(q) ==
  IF IsNumber(q.answer_index) THEN ValueOf(q.answer_index)
  ELSE IF IsNumber(q.answerIndex) THEN ValueOf(q.answerIndex)
  ELSE IF IsNumber(q.correct) THEN ValueOf(q.correct)
  ELSE 0

ClampAnswerIndex(a) == Max(0, Min(MAX_ANSWER_INDEX, a))

\* mutant of IsDup: only the first entries are compared
IsDupFirstOnly(qd, prev, qtext) ==
  \/ \E i \in 1..Min(1, Len(qd)) : Trim(qd[i].question) = qtext
  \/ \E i \in 1..Min(1, Len(prev)) : prev[i] = qtext

\* mutant of IsDup: both searches stop one entry early
IsDupSkipLast(qd, prev, qtext) ==
  \/ \E i \in 1..(Len(qd) - 1) : Trim(qd[i].question) = qtext
  \/ \E i \in 1..(Len(prev) - 1) : prev[i] = qtext

IsDup(qd, prev, qtext) ==
  \/ \E i \in 1..Len(qd) : Trim(qd[i].question) = qtext
  \/ \E i \in 1..Len(prev) : prev[i] = qtext

\* the loop over the response array; acc is [quizData, previousQuestions, added]
RECURSIVE AppendUnique(_, _)
AppendUnique(acc, arr) ==
  IF arr = <<>> THEN acc
  ELSE LET q == Head(arr)
           qtext == Trim(q.question)
       IN IF qtext = <<>> \/ IsDup(acc.quizData, acc.previousQuestions, qtext)
          THEN AppendUnique(acc, Tail(arr))
          ELSE AppendUnique(
                 [quizData |-> Append(acc.quizData,
                     [question |-> qtext,
                      options |-> CoerceOptions(q.options),
                      answer_index |-> ClampAnswerIndex(RawAnswerIndex(q))]),
                  previousQuestions |-> Append(acc.previousQuestions, qtext),
                  added |-> acc.added + 1],
                 Tail(arr))

\* the part of fetchAndAppendQuestions before the fetch is awaited
\* (the payload {topic, count, usedQuestionsText} goes to the server and
\* is not read again; `sent` keeps its topic and count for the handler's
\* history record)
fetchSend(S, op, topic, count) ==
  [showLoading(S, TRUE) EXCEPT
     !.inflight = S.inflight (+) SetToBag({[op |-> op, superseded |-> FALSE]}),
     !.sent = [topic |-> topic, count |-> count]]

\* the part after the response has arrived: [ok, added, state]
\* (`added` is the loop's counter, also when the function returns false)
fetchReceive(S, resp) ==
  IF resp.kind = "throw"
  THEN [ok |-> FALSE, added |-> 0,
        state |-> [S EXCEPT !.alert = "Network error while generating quiz."]]
  ELSE IF resp.kind = "status"
  THEN [ok |-> FALSE, added |-> 0,
        state |-> [S EXCEPT !.alert = "Failed to generate quiz"]]
  ELSE IF resp.kind = "notarray" \/ resp.arr = <<>>
  THEN [ok |-> FALSE, added |-> 0,
        state |-> [S EXCEPT !.alert = "Server returned no questions."]]
  ELSE LET r == AppendUnique([quizData |-> S.quizData,
                              previousQuestions |-> S.previousQuestions,
                              added |-> 0], resp.arr)
           S1 == [S EXCEPT !.quizData = r.quizData,
                           !.previousQuestions = r.previousQuestions]
       IN IF r.added = 0 /\ Len(S1.quizData) = 0
          THEN [ok |-> FALSE, added |-> r.added,
                state |-> [S1 EXCEPT !.alert = "No new unique questions were generated"]]
          ELSE [ok |-> TRUE, added |-> r.added, state |-> S1]

\* initQuiz up to its await
initQuizSend(S, topic, count) ==
  LET S1 == [S EXCEPT !.currentTopic = topic, !.currentCount = count,
                      !.previousQuestions = <<>>, !.quizData = <<>>,
                      !.currentQuestionIndex = 0, !.selectedAnswers = <<>>]
      S2 == [showSection(S1, "quiz") EXCEPT
                      !.nButtons = 0, !.btnDisabled = FALSE, !.score = 0]
  IN fetchSend(S2, "init", topic, count)

\* initQuiz after its await
initQuizResume(S, ok) ==
  IF ~ok THEN S
  ELSE startTimer(renderQuestion(
         showSection([S EXCEPT !.quizStartTime = "set"], "quiz")))

\* parseInt(value, 10) || 5
CountOrDefault(c) ==
  IF IsNumber(c) /\ ValueOf(c) # 0 THEN ValueOf(c) ELSE DEFAULT_COUNT

MoreCount(c) == Min(MAX_COUNT, Max(MIN_COUNT, CountOrDefault(c)))

generateMoreSend(S, countInput) ==
  IF S.currentTopic = <<>>
  THEN [S EXCEPT !.alert = "Start a quiz first (choose a topic)."]
  ELSE fetchSend(S, "more", S.currentTopic, MoreCount(countInput))

\* mutant of generateMoreResume: the current question is rendered again and
\* its countdown restarted
generateMoreResumeRender(S, ok) ==
  IF ok THEN startTimer(renderQuestion([S EXCEPT !.alert = "New questions added."]))
  ELSE S

generateMoreResume(S, ok) ==
  IF ok THEN [S EXCEPT !.alert = "New questions added."] ELSE S

(***************************************************************************)
(* The state machine.  `last` is a history variable: the handler that ran   *)
(* last and what it was given.                                              *)
(***************************************************************************)
NoPre == [index |-> -1, score |-> -1, answers |-> <<>>]

\* The server process (server.js): `requests` is its Map from address to
\* the timestamps of the requests counted for it, `now` is Date.now(), `key`
\* says whether GEMINI_API_KEY is set.  History fields: `req` is what the
\* last request was (address, body, what the provider answered), `out` the
\* response it got, `calls` the models the provider was asked for, and
\* `admitted` the times of the requests of each address that passed the
\* rate limiter.
Addresses == {"a", "b"}

NoReq == [ip |-> "", body |-> [kind |-> "none"], run |-> <<>>,
          text |-> [kind |-> "none"]]

NoOut == [status |-> 0, error |-> "", questions |-> <<>>, tried_models |-> <<>>]

NewSrv(key) ==
  [requests |-> [a \in Addresses |-> <<>>], now |-> 0, key |-> key,
   req |-> NoReq, out |-> NoOut, calls |-> <<>>,
   admitted |-> [a \in Addresses |-> <<>>]]

InitSrv == NewSrv(TRUE)

\* `topicInput`, `entered` and `kind` are what a whole round was given: the
\* two fields of the modal (or the prompt's answer) and the kind of response
Ev(op) == [op |-> op, index |-> -1, ok |-> TRUE, alert |-> "", added |-> 0,
           skipped |-> 0, superseded |-> FALSE, reqop |-> "", threw |-> FALSE,
           pre |-> NoPre, sent |-> NoSent, topicInput |-> <<>>,
           entered |-> NotNumber, kind |-> "", results |-> NoResults]

\* the bounds on the counters the code leaves unbounded
InBounds(T) ==
  /\ T.score <= MaxScore
  /\ BagCardinality(T.pending) <= MaxPending
  /\ BagCardinality(T.inflight) <= MaxInFlight
  /\ T.timeLeft >= -MaxOverrun

\* the handler's result T becomes the next state
Set(T, ev) ==
  \E N \in {T} :
    /\ InBounds(N)
    /\ quizData' = N.quizData
    /\ currentQuestionIndex' = N.currentQuestionIndex
    /\ selectedAnswers' = N.selectedAnswers
    /\ score' = N.score
    /\ timeLeft' = N.timeLeft
    /\ timerHandle' = N.timerHandle
    /\ quizStartTime' = N.quizStartTime
    /\ previousQuestions' = N.previousQuestions
    /\ currentTopic' = N.currentTopic
    /\ currentCount' = N.currentCount
    /\ section' = N.section
    /\ modalOpen' = N.modalOpen
    /\ nButtons' = N.nButtons
    /\ btnDisabled' = N.btnDisabled
    /\ intervals' = N.intervals
    /\ pending' = N.pending
    /\ inflight' = N.inflight
    /\ disp' = N.disp
    /\ last' = [ev EXCEPT !.alert = N.alert, !.sent = N.sent,
                           !.results = N.results]
    /\ srv' = srv

Init ==
  /\ quizData = <<>>
  /\ currentQuestionIndex = 0
  /\ selectedAnswers = <<>>
  /\ score = 0
  /\ timeLeft = QUESTION_SECONDS
  /\ timerHandle = NULL
  /\ quizStartTime = "null"
  /\ previousQuestions = <<>>
  /\ currentTopic = <<>>
  /\ currentCount = DEFAULT_COUNT
  /\ section = "home"
  /\ modalOpen = FALSE
  /\ nButtons = 0
  /\ btnDisabled = FALSE
  /\ intervals = {}
  /\ pending = EmptyBag
  /\ inflight = EmptyBag
  /\ disp = NoDisp
  /\ last = Ev("Init")
  /\ srv = InitSrv

\* click on startBtn (home section)
StartBtn ==
  /\ section = "home"
  /\ Set(startQuiz(St), Ev("StartBtn"))

\* click on modal.cancelBtn
ModalCancel ==
  /\ modalOpen
  /\ Set(hideModal(St), Ev("ModalCancel"))

\* every request a later initQuiz supersedes is marked (history field)
Supersede(reqs) ==
  LET Count(op) == CopiesIn([op |-> op, superseded |-> FALSE], reqs)
                     + CopiesIn([op |-> op, superseded |-> TRUE], reqs)
  IN [r \in {[op |-> r.op, superseded |-> TRUE] : r \in BagToSet(reqs)} |->
        Count(r.op)]

\* the two early returns of the modal's start handler
Rejected(topic, count) == topic = <<>> \/ count < MIN_COUNT \/ count > MAX_COUNT

\* click on modal.startBtn with the two fields as typed
ModalStart(topicInput, countInput) ==
  LET topic == Trim(topicInput)
      count == CountOrDefault(countInput)
  IN /\ modalOpen
     /\ IF Rejected(topic, count)
        THEN Set(St, [Ev("ModalStart") EXCEPT !.ok = FALSE])
        ELSE Set(initQuizSend(hideModal([St EXCEPT !.inflight = Supersede(@)]),
                              topic, count),
                 Ev("ModalStart"))

\* the candidates of a response array with a non-empty trimmed text
Candidates(resp) ==
  IF resp.kind = "ok"
  THEN Cardinality({j \in 1..Len(resp.arr) : Trim(resp.arr[j].question) # <<>>})
  ELSE 0

\* the response of the outstanding fetch req arrives
FetchResolve(req, resp) ==
  \E r \in {fetchReceive([St EXCEPT !.inflight = @ (-) SetToBag({req})], resp)} :
    LET T == IF req.op = "init" THEN initQuizResume(r.state, r.ok)
             ELSE generateMoreResume(r.state, r.ok)
    IN Set(T, [Ev("FetchResolve") EXCEPT !.ok = r.ok, !.added = r.added,
                  !.skipped = Candidates(resp) - r.added,
                  !.superseded = req.superseded, !.reqop = req.op])

\* click on an option button
OptionClick(index) ==
  /\ section = "quiz"
  /\ index < nButtons
  /\ ~btnDisabled
  /\ Set(onOptionClicked(St, index), [Ev("OptionClick") EXCEPT !.index = index])

\* keydown '1'..'4'
KeyDigit(num) ==
  /\ section = "quiz"
  /\ Set(onOptionClicked(St, num), [Ev("KeyDigit") EXCEPT !.index = num])

PreOf(S) == [index |-> S.currentQuestionIndex, score |-> S.score,
             answers |-> S.selectedAnswers]

\* history: an advance that directly follows a retreat keeps what the
\* retreat started from
PreKept == IF last.op = "PreviousQuestion" THEN last.pre ELSE NoPre

\* click on nextBtn, keydown ArrowRight or Enter
NextQuestion ==
  /\ section = "quiz"
  /\ \E ms \in ClockInputs :
       Set(nextQuestion([St EXCEPT !.clock = ms]),
           [Ev("NextQuestion") EXCEPT !.pre = PreKept])

\* click on prevBtn, keydown ArrowLeft
PreviousQuestion ==
  /\ section = "quiz"
  /\ Set(previousQuestion(St), [Ev("PreviousQuestion") EXCEPT !.pre = PreOf(St)])

\* a timeout set by onOptionClicked fires
FeedbackTimeout(index) ==
  /\ BagIn(FeedbackCb(index), pending)
  /\ LET S0 == [St EXCEPT !.pending = @ (-) SetToBag({FeedbackCb(index)})]
     IN Set(showAnswerFeedback(S0, index),
            [Ev("FeedbackTimeout") EXCEPT !.index = index,
                                          !.threw = FeedbackThrows(S0)])

\* a timeout set by showAnswerFeedback fires
AdvanceTimeout ==
  /\ BagIn(AdvanceCb, pending)
  /\ \E ms \in ClockInputs :
       Set(nextQuestion([St EXCEPT !.pending = @ (-) SetToBag({AdvanceCb}),
                                   !.clock = ms]),
           [Ev("AdvanceTimeout") EXCEPT !.pre = PreKept])

\* a live interval fires
Tick(id) ==
  /\ id \in intervals
  /\ Set(TimerTick(St),
         [Ev("Tick") EXCEPT !.threw = (timeLeft - 1 <= 0 /\ FeedbackThrows(St)),
                            !.pre = PreOf(St)])

\* click on moreBtn, with the answer to its prompt
GenerateMore(countInput) ==
  /\ section = "quiz"
  /\ Set(generateMoreSend(St, countInput), Ev("GenerateMore"))

\* click on tryAgainBtn
RestartQuiz ==
  /\ section = "results"
  /\ Set(restartQuiz(St), Ev("RestartQuiz"))

\* click on backHomeBtn
BackHome ==
  /\ section = "results"
  /\ Set(showSection(St, "home"), Ev("BackHome"))

KeyIndices == 0..(MaxKey - 1)

(***************************************************************************)
(* Spec: the session protocol.  The user starts quizzes, asks for more      *)
(* questions and navigates; fetches resolve in any order with any           *)
(* response.  (No option is selected and no countdown tick fires here;      *)
(* those are the subject of SpecPlay and SpecTimer.)                        *)
(***************************************************************************)
Next ==
  \/ StartBtn
  \/ ModalCancel
  \/ \E t \in TopicInputs, c \in CountInputs : ModalStart(t, c)
  \/ \E req \in BagToSet(inflight), resp \in Responses : FetchResolve(req, resp)
  \/ NextQuestion
  \/ PreviousQuestion
  \/ \E c \in CountInputs : GenerateMore(c)
  \/ RestartQuiz
  \/ BackHome

Spec == Init /\ [][Next]_vars

(***************************************************************************)
(* The state right after a first start has succeeded with the response      *)
(* array arr: the handlers StartBtn, ModalStart and FetchResolve applied    *)
(* to the initial state.                                                    *)
(***************************************************************************)
InitState ==
  [quizData |-> <<>>, currentQuestionIndex |-> 0, selectedAnswers |-> <<>>,
   score |-> 0, timeLeft |-> QUESTION_SECONDS, timerHandle |-> NULL,
   quizStartTime |-> "null", previousQuestions |-> <<>>, currentTopic |-> <<>>,
   currentCount |-> DEFAULT_COUNT, section |-> "home", modalOpen |-> FALSE,
   nButtons |-> 0, btnDisabled |-> FALSE, intervals |-> {},
   pending |-> EmptyBag, inflight |-> EmptyBag, disp |-> NoDisp, alert |-> "",
   sent |-> NoSent, clock |-> 0, results |-> NoResults]

StartedState(arr) ==
  LET S1 == initQuizSend(hideModal(startQuiz(InitState)), <<"x", "y", "z">>, DEFAULT_COUNT)
      r == fetchReceive([S1 EXCEPT !.inflight = EmptyBag], [kind |-> "ok", arr |-> arr])
  IN initQuizResume(r.state, r.ok)

IsWith(T, ev, V) ==
  /\ quizData = T.quizData
  /\ currentQuestionIndex = T.currentQuestionIndex
  /\ selectedAnswers = T.selectedAnswers
  /\ score = T.score
  /\ timeLeft = T.timeLeft
  /\ timerHandle = T.timerHandle
  /\ quizStartTime = T.quizStartTime
  /\ previousQuestions = T.previousQuestions
  /\ currentTopic = T.currentTopic
  /\ currentCount = T.currentCount
  /\ section = T.section
  /\ modalOpen = T.modalOpen
  /\ nButtons = T.nButtons
  /\ btnDisabled = T.btnDisabled
  /\ intervals = T.intervals
  /\ pending = T.pending
  /\ inflight = T.inflight
  /\ disp = T.disp
  /\ last = ev
  /\ srv = V

Is(T, ev) == IsWith(T, ev, InitSrv)

\* the response arrays the played quizzes come from
PlayArrays ==
  {arr \in RespArrays : Len(StartedState(arr).quizData) > 0}

InitPlay ==
  \E arr \in PlayArrays :
    LET resp == [kind |-> "ok", arr |-> arr]
        added == Len(StartedState(arr).quizData)
    IN Is(StartedState(arr),
          [Ev("FetchResolve") EXCEPT !.added = added,
                                     !.skipped = Candidates(resp) - added,
                                     !.reqop = "init"])

(***************************************************************************)
(* SpecPlay: a started quiz is played.  Options are selected by click and   *)
(* by key, the feedback and auto-advance timeouts fire in any order, the    *)
(* user navigates, finishes and restarts.                                   *)
(***************************************************************************)
NextPlay ==
  \/ \E k \in KeyIndices : OptionClick(k)
  \/ \E k \in KeyIndices : KeyDigit(k)
  \/ NextQuestion
  \/ PreviousQuestion
  \/ \E k \in KeyIndices : FeedbackTimeout(k)
  \/ AdvanceTimeout
  \/ RestartQuiz

SpecPlay == InitPlay /\ [][NextPlay]_vars

(***************************************************************************)
(* SpecTimer: a started quiz with its countdown running.  The interval      *)
(* ticks, the user selects the first option or navigates, timeouts fire.    *)
(***************************************************************************)
NextTimer ==
  \/ \E id \in intervals : Tick(id)
  \/ KeyDigit(0)
  \/ FeedbackTimeout(0)
  \/ AdvanceTimeout
  \/ NextQuestion
  \/ PreviousQuestion
  \/ RestartQuiz

SpecTimer == InitPlay /\ [][NextTimer]_vars

\* SpecTimerFair adds that the browser eventually runs an interval callback
\* and a timeout that are due
SpecTimerFair ==
  /\ SpecTimer
  /\ WF_vars(\E id \in intervals : Tick(id))
  /\ WF_vars(FeedbackTimeout(0))
  /\ WF_vars(AdvanceTimeout)

(***************************************************************************)
(* SpecIdle: a started quiz that the user leaves alone or only navigates:   *)
(* the interval ticks and the auto-advance timeouts fire.  SpecIdleFair     *)
(* adds that the browser eventually runs a timeout that is due.             *)
(***************************************************************************)
NextIdle ==
  \/ \E id \in intervals : Tick(id)
  \/ AdvanceTimeout
  \/ NextQuestion
  \/ PreviousQuestion

SpecIdle == InitPlay /\ [][NextIdle]_vars

SpecIdleFair == SpecIdle /\ WF_vars(AdvanceTimeout)

(***************************************************************************)
(* SpecRound: whole rounds.  The response of a fetch arrives before any     *)
(* other event is handled, so the modal's start handler with initQuiz, and  *)
(* generateMoreQuestions, each run from the click to their last statement   *)
(* as one step.  Between rounds the user navigates, finishes, restarts and  *)
(* goes back home.                                                          *)
(***************************************************************************)
InitReq == [op |-> "init", superseded |-> FALSE]
MoreReq == [op |-> "more", superseded |-> FALSE]

\* click on modal.startBtn, and the response to the request it sends
StartRound(topicInput, countInput, resp) ==
  LET topic == Trim(topicInput)
      count == CountOrDefault(countInput)
      ev == [Ev("StartRound") EXCEPT !.topicInput = topicInput,
                                     !.entered = countInput]
  IN /\ modalOpen
     /\ IF Rejected(topic, count)
        THEN Set(St, [ev EXCEPT !.ok = FALSE])
        ELSE \E r \in {fetchReceive(
                         [initQuizSend(hideModal(St), topic, count)
                            EXCEPT !.inflight = @ (-) SetToBag({InitReq})], resp)} :
               Set(initQuizResume(r.state, r.ok),
                   [ev EXCEPT !.ok = r.ok, !.added = r.added,
                              !.skipped = Candidates(resp) - r.added,
                              !.reqop = "init", !.kind = resp.kind])

\* click on moreBtn with the answer to its prompt, and the response
MoreRound(countInput, resp) ==
  LET ev == [Ev("MoreRound") EXCEPT !.entered = countInput]
  IN /\ section = "quiz"
     /\ IF currentTopic = <<>>
        THEN Set(generateMoreSend(St, countInput), [ev EXCEPT !.ok = FALSE])
        ELSE \E r \in {fetchReceive(
                         [generateMoreSend(St, countInput)
                            EXCEPT !.inflight = @ (-) SetToBag({MoreReq})], resp)} :
               Set(generateMoreResume(r.state, r.ok),
                   [ev EXCEPT !.ok = r.ok, !.added = r.added,
                              !.skipped = Candidates(resp) - r.added,
                              !.reqop = "more", !.kind = resp.kind])

NextRound ==
  \/ StartBtn
  \/ \E t \in TopicInputs, c \in CountInputs, resp \in Responses :
       StartRound(t, c, resp)
  \/ \E c \in CountInputs, resp \in Responses : MoreRound(c, resp)
  \/ NextQuestion
  \/ PreviousQuestion
  \/ RestartQuiz
  \/ BackHome

SpecRound == Init /\ [][NextRound]_vars

(***************************************************************************)
(* SpecMore: more questions are asked for while a started quiz is played:   *)
(* the countdown ticks, the first option is selected by key, the feedback   *)
(* and auto-advance timeouts fire, and whole generate-more rounds run.      *)
(***************************************************************************)
NextMore ==
  \/ \E id \in intervals : Tick(id)
  \/ KeyDigit(0)
  \/ FeedbackTimeout(0)
  \/ AdvanceTimeout
  \/ \E resp \in Responses : MoreRound(Num(3), resp)

SpecMore == InitPlay /\ [][NextMore]_vars

(***************************************************************************)
(* The server (server.js): POST /generate-quiz up to the call of the        *)
(* provider, and the normalization of the provider's items.  The file       *)
(* holds two variants of the server; the first normalizes in                *)
(* normalizeQuestions, the second inline in its handler.  Whether the       *)
(* request is admitted by the rate limiter and whether the API key is       *)
(* configured are inputs; the provider is taken to answer with an array.    *)
(***************************************************************************)
\* what the provider returns: items whose options array has any length, or
\* is missing
ProviderItems ==
  { Item(<<" ", "a">>, Num(2), Num(1)),
    Item(<<"b">>,      Num(5), Num(0)),
    Item(<<"b">>,      NotNumber, Num(0)),
    Item(<<" ">>,      Num(4), Num(0)) }

ServerVariants == {"normalizeQuestions", "inline"}
ServerEnvs == {"ready", "limited", "nokey"}
ServedTopicInputs == {<<"x">>, <<" ", "x", "y", "z">>}
MIN_TOPIC == 3

\* Array.isArray(it.options) ? it.options.map(String) : []
OptionsLength(o) == IF IsNumber(o) THEN ValueOf(o) ELSE 0

\* first variant: pad with 'Option' up to 4, or truncate to 4
PadOptions(n) ==
  IF n < MAX_OPTIONS THEN MAX_OPTIONS
  ELSE IF n > MAX_OPTIONS THEN MAX_OPTIONS
  ELSE n

\* second variant: the padded copy `o` is not used, options stays as it was
KeepOptions(n) == n

ServerAnswerIndex(it) ==
  IF IsNumber(it.answer_index) THEN ValueOf(it.answer_index)
  ELSE IF IsNumber(it.answerIndex) THEN ValueOf(it.answerIndex)
  ELSE 0

\* the filter after the map
Kept(q) == q.question # <<>> /\ ValueOf(q.options) >= 2

Take(seq, n) == SubSeq(seq, 1, Min(n, Len(seq)))

\* mutant of normalizeQuestions: the slice to `count` is missing
normalizeQuestionsNoSlice(items, count) ==
  SelectSeq([i \in 1..Len(items) |->
               Item(Trim(items[i].question),
                    Num(PadOptions(OptionsLength(items[i].options))),
                    Num(ServerAnswerIndex(items[i])))], Kept)

normalizeQuestions(items, count) ==
  Take(SelectSeq([i \in 1..Len(items) |->
                    Item(Trim(items[i].question),
                         Num(PadOptions(OptionsLength(items[i].options))),
                         Num(ServerAnswerIndex(items[i])))],
                 Kept),
       count)

normalizeInline(items, count) ==
  Take(SelectSeq([i \in 1..Len(items) |->
                    Item(Trim(items[i].question),
                         Num(KeepOptions(OptionsLength(items[i].options))),
                         Num(ServerAnswerIndex(items[i])))],
                 Kept),
       count)

\* the response of POST /generate-quiz to the request {topic, count}
generateQuiz(variant, env, topic, count, items) ==
  IF env = "limited" THEN [kind |-> "status"]
  ELSE IF Len(Trim(topic)) < MIN_TOPIC THEN [kind |-> "status"]
  ELSE IF count < MIN_COUNT \/ count > MAX_COUNT THEN [kind |-> "status"]
  ELSE IF env = "nokey" THEN [kind |-> "status"]
  ELSE [kind |-> "ok",
        arr |-> IF variant = "normalizeQuestions"
                THEN normalizeQuestions(items, count)
                ELSE normalizeInline(items, count)]

(***************************************************************************)
(* SpecServe: whole rounds whose response is the server's answer to the     *)
(* request the client has sent.                                             *)
(***************************************************************************)
ProviderArrays == SeqsUpTo(ProviderItems, MaxResp)

ServedStart(variant, env, topicInput, items) ==
  StartRound(topicInput, Num(3),
             generateQuiz(variant, env, Trim(topicInput),
                          CountOrDefault(Num(3)), items))

ServedMore(variant, env, items) ==
  MoreRound(Num(3),
            generateQuiz(variant, env, currentTopic, MoreCount(Num(3)), items))

NextServe ==
  \/ StartBtn
  \/ \E v \in ServerVariants, e \in ServerEnvs, t \in ServedTopicInputs,
        items \in ProviderArrays : ServedStart(v, e, t, items)
  \/ \E v \in ServerVariants, e \in ServerEnvs, items \in ProviderArrays :
        ServedMore(v, e, items)
  \/ NextQuestion
  \/ RestartQuiz
  \/ BackHome

SpecServe == Init /\ [][NextServe]_vars

(***************************************************************************)
(* The server as a process (server.js, the variant with the model          *)
(* candidates): the rate limiter, the checks of POST /generate-quiz, the    *)
(* loop over the model candidates and the normalization of what the         *)
(* provider returned.  A request is handled in one step: the only state     *)
(* the handler shares with other requests is the limiter's Map, which it    *)
(* reads and writes before its first await.                                 *)
(***************************************************************************)
RATE_LIMIT == 12
RATE_WINDOW_MS == 60000
GEMINI_MODEL == "gemini-pro"

ModelCandidates ==
  <<GEMINI_MODEL, "gemini-pro", "gemini-1.0-pro", "gemini-pro-latest",
    "gemini-1.0", "gemini-pro-vision">>

\* what the provider does when it is asked for one model: the model is
\* not found (404), it generates empty text, it generates text, or the call
\* fails in another way
Outcomes == {"notfound", "empty", "text", "error"}

\* mutant of Fresh: a request is forgotten after half the window
FreshHalfWindow(now, t) == 2 * (now - t) < RATE_WINDOW_MS

\* the filter of checkRateLimit
Fresh(now, t) == now - t < RATE_WINDOW_MS

\* [ok, state]
checkRateLimit(V, ip) ==
  LET fresh == SelectSeq(V.requests[ip], LAMBDA t : Fresh(V.now, t))
      pushed == Append(fresh, V.now)
  IN [ok |-> Len(pushed) <= RATE_LIMIT,
      state |-> [V EXCEPT !.requests[ip] = pushed]]

\* [threw, text]: text is "null", "" or "text"
tryGenerateWithModel(answer) ==
  IF answer = "error" THEN [threw |-> TRUE, text |-> "null"]
  ELSE [threw |-> FALSE,
        text |-> IF answer = "notfound" THEN "null"
                 ELSE IF answer = "empty" THEN "" ELSE "text"]

Truthy(text) == text \notin {"null", ""}

\* the loop over modelCandidates, from candidate i on; run[i] is what the
\* provider does for candidate i, calls are the models asked so far
RECURSIVE TryModels(_, _, _)
TryModels(i, run, calls) ==
  IF i > Len(ModelCandidates) THEN [kind |-> "none", calls |-> calls]
  ELSE LET r == tryGenerateWithModel(run[i])
           c == Append(calls, ModelCandidates[i])
       IN IF r.threw THEN [kind |-> "error", calls |-> c]
          ELSE IF Truthy(r.text) THEN [kind |-> "text", calls |-> c]
          ELSE TryModels(i + 1, run, c)

\* text is what the successful model generated: [kind |-> "array", arr]
\* when a question array can be extracted from it, another kind when not
generateWithGemini(run, text, count) ==
  LET t == TryModels(1, run, <<>>)
  IN IF t.kind = "error"
     THEN [kind |-> "error", calls |-> t.calls, questions |-> <<>>]
     ELSE IF t.kind = "none"
     THEN [kind |-> "triedModels", calls |-> t.calls, questions |-> <<>>]
     ELSE IF text.kind # "array"
     THEN [kind |-> "parse", calls |-> t.calls, questions |-> <<>>]
     ELSE [kind |-> "ok", calls |-> t.calls,
           questions |-> normalizeQuestions(text.arr, count)]

\* history: the admitted requests of the 60 seconds before `now`
InWindow(log, now) == SelectSeq(log, LAMBDA t : now - t < RATE_WINDOW_MS)

Reply(status, error) == [NoOut EXCEPT !.status = status, !.error = error]

\* mutant of BodyCount: the default also replaces a count that is no integer
BodyCountLax(body) ==
  IF body.count.kind # "int" THEN [kind |-> "int", n |-> DEFAULT_COUNT]
  ELSE body.count

\* `count = 5` of the destructured body
BodyCount(body) ==
  IF body.count.kind = "absent" THEN [kind |-> "int", n |-> DEFAULT_COUNT]
  ELSE body.count

\* app.post('/generate-quiz'): the server's state after the request
postGenerateQuiz(V, ip, body, run, text) ==
  LET lim == checkRateLimit(V, ip)
      W == [lim.state EXCEPT !.req = [ip |-> ip, body |-> body, run |-> run,
                                      text |-> text],
                             !.calls = <<>>]
      count == BodyCount(body)
  IN IF ~lim.ok
     THEN [W EXCEPT !.out = Reply(429, "Too many requests")]
     ELSE LET A == [W EXCEPT !.admitted[ip] = Append(InWindow(@, V.now), V.now)]
       IN
       IF ~body.topicIsString \/ body.topic = <<>>
            \/ Len(Trim(body.topic)) < MIN_TOPIC
       THEN [A EXCEPT !.out = Reply(400, "Invalid topic")]
       ELSE IF count.kind # "int" \/ count.n < MIN_COUNT \/ count.n > MAX_COUNT
       THEN [A EXCEPT !.out = Reply(400, "Count must be integer")]
       ELSE IF ~V.key
       THEN [A EXCEPT !.out = Reply(500, "Server not configured")]
       ELSE LET g == generateWithGemini(run, text, count.n)
            IN [A EXCEPT
                  !.calls = g.calls,
                  !.out = IF g.kind = "ok"
                          THEN [Reply(200, "") EXCEPT !.questions = g.questions]
                          ELSE IF g.kind = "triedModels"
                          THEN [Reply(502, "No supported models available")
                                  EXCEPT !.tried_models = ModelCandidates]
                          ELSE IF g.kind = "parse"
                          THEN Reply(500, "Failed to parse Gemini JSON.")
                          ELSE Reply(500, "Server error")]

\* request bodies: topic (a string or not), count (absent, an integer, or
\* something else)
GoodTopic == <<"x", "y", "z">>
IntCount(n) == [kind |-> "int", n |-> n]
Body(topic, isString, count) ==
  [kind |-> "json", topic |-> topic, topicIsString |-> isString, count |-> count]

BodyTopics == {<<>>, <<"x", "y">>, <<" ", "x", "y", " ">>, GoodTopic}
BodyCounts ==
  {[kind |-> "absent"], [kind |-> "other"], IntCount(0), IntCount(1),
   IntCount(20), IntCount(21)}
Bodies ==
  {Body(t, TRUE, c) : t \in BodyTopics, c \in BodyCounts}
    \cup {Body(GoodTopic, FALSE, IntCount(3))}
GoodBody == Body(GoodTopic, TRUE, IntCount(3))

\* what the provider does for the six candidates: the candidates before the
\* k-th are not found or generate nothing, the k-th does o, the others are
\* not found
Runs ==
  {[i \in 1..Len(ModelCandidates) |->
      IF i < k THEN f ELSE IF i = k THEN o ELSE "notfound"] :
     k \in 1..Len(ModelCandidates), f \in {"notfound", "empty"}, o \in Outcomes}
GoodRun == [i \in 1..Len(ModelCandidates) |-> "text"]

\* the items of the provider's question array
NormItems ==
  { Item(<<" ", "a">>, Num(4), Num(2)),
    Item(<<"b">>,      Num(4), Num(7)),
    Item(<<"c">>,      Num(2), NotNumber),
    Item(<<"e">>,      Num(4), Num(1)),
    Item(<<" ">>,      Num(4), Num(-1)) }

Texts ==
  {[kind |-> "garbage"]}
    \cup {[kind |-> "array", arr |-> a] : a \in SeqsUpTo(NormItems, MaxResp)}
GoodText == [kind |-> "array", arr |-> <<Item(<<"e">>, Num(4), Num(1))>>]

\* the counts asked for with the question arrays
NormCounts == {1, 3}

client ==
  <<quizData, currentQuestionIndex, selectedAnswers, score, timeLeft,
    timerHandle, quizStartTime, previousQuestions, currentTopic,
    currentCount, section, modalOpen, nButtons, btnDisabled,
    intervals, pending, inflight, disp>>

\* a request to POST /generate-quiz arrives and is answered
Request(ip, body, run, text) ==
  /\ \E V \in {postGenerateQuiz(srv, ip, body, run, text)} :
       /\ Len(V.requests[ip]) <= RATE_LIMIT + MaxExcess
       /\ srv' = V
  /\ last' = Ev("Request")
  /\ UNCHANGED client

\* d milliseconds pass
Elapse(d) ==
  /\ srv.now + d <= MaxClock * (RATE_WINDOW_MS \div 2)
  /\ srv' = [srv EXCEPT !.now = @ + d]
  /\ last' = Ev("Elapse")
  /\ UNCHANGED client

InitServer == \E k \in BOOLEAN : IsWith(InitState, Ev("Init"), NewSrv(k))

(***************************************************************************)
(* SpecLimit: two addresses send well-formed requests while time passes in  *)
(* steps of half a window; the first address sends past the limit.          *)
(***************************************************************************)
NextLimit ==
  \/ Request("a", GoodBody, GoodRun, GoodText)
  \/ /\ Len(InWindow(srv.requests["b"], srv.now)) < MaxOther
     /\ Request("b", GoodBody, GoodRun, GoodText)
  \/ Elapse(RATE_WINDOW_MS \div 2)

SpecLimit == Init /\ [][NextLimit]_vars

(***************************************************************************)
(* SpecServer: one address sends requests with any body and any behaviour  *)
(* of the provider's models, to a server with and without credentials,      *)
(* while time passes in steps of a window.                                  *)
(***************************************************************************)
NextServer ==
  \/ \E body \in Bodies : Request("a", body, GoodRun, GoodText)
  \/ \E run \in Runs : Request("a", GoodBody, run, GoodText)
  \/ Elapse(RATE_WINDOW_MS)

SpecServer == InitServer /\ [][NextServer]_vars

(***************************************************************************)
(* SpecNormalize: one address sends well-formed requests, the provider's    *)
(* first model answers with any question array or with text that holds      *)
(* none.                                                                    *)
(***************************************************************************)
NextNormalize ==
  \E text \in Texts, n \in NormCounts :
    Request("a", Body(GoodTopic, TRUE, IntCount(n)), GoodRun, text)

SpecNormalize == Init /\ [][NextNormalize]_vars

(***************************************************************************)
(* Session states.                                                          *)
(***************************************************************************)
QuizShown == section = "quiz"

\* a start (initQuiz) is waiting for its response
StartLoading == \E req \in BagToSet(inflight) : req.op = "init"

\* the quiz section is shown and no start is loading
Active == QuizShown /\ ~StartLoading

StartCompleted == last.op = "FetchResolve" /\ last.reqop = "init"

(***************************************************************************)
(* C1: once a start has completed, either the quiz section is shown with    *)
(* at least one question, or it is not shown and an error was reported.     *)
(***************************************************************************)
C1_StartOutcome ==
  StartCompleted =>
    \/ QuizShown /\ Len(quizData) > 0
    \/ ~QuizShown /\ last.alert # ""

(***************************************************************************)
(* C2: during one display of a question the score is incremented at most    *)
(* once and at most one auto-advance is scheduled, whatever selections are  *)
(* made.                                                                    *)
(***************************************************************************)
C2_AnswerOnce == disp.scored <= 1 /\ disp.advances <= 1

(***************************************************************************)
(* C3: at most one countdown interval is live, and a live interval is the   *)
(* one held in timerHandle.                                                 *)
(***************************************************************************)
C3_TimerExclusive ==
  /\ Cardinality(intervals) <= 1
  /\ \A id \in intervals : id = timerHandle

\* a retreat from a later question has stopped the countdown and started a
\* new one
C3_Witness ==
  /\ last.op = "PreviousQuestion"
  /\ last.pre.index > 0
  /\ timerHandle # NULL
  /\ intervals = {timerHandle}

(***************************************************************************)
(* C4: no two questions of the session have the same trimmed text, and no   *)
(* text occurs twice in previousQuestions.                                  *)
(***************************************************************************)
C4_NoDuplicates ==
  /\ \A i, j \in 1..Len(quizData) :
       Trim(quizData[i].question) = Trim(quizData[j].question) => i = j
  /\ \A i, j \in 1..Len(previousQuestions) :
       previousQuestions[i] = previousQuestions[j] => i = j

\* a generate-more round whose response repeated a question has completed
\* on a session of two questions
C4_Witness ==
  /\ last.op = "FetchResolve"
  /\ last.reqop = "more"
  /\ last.skipped > 0
  /\ last.added > 0
  /\ Len(quizData) = 2

(***************************************************************************)
(* C5: while the session is active the current index is inside the          *)
(* question list.                                                           *)
(***************************************************************************)
C5_IndexInRange ==
  Active => 0 <= currentQuestionIndex /\ currentQuestionIndex < Len(quizData)

(***************************************************************************)
(* C6: the score is incremented only by 1 and only by a feedback step       *)
(* whose selected index is the answer_index of the current question; a      *)
(* feedback step with another index or with no selection (-1, the           *)
(* countdown expiry) leaves it unchanged.  (start and restart reset it.)    *)
(***************************************************************************)
FeedbackStep ==
  \/ last'.op = "FeedbackTimeout"
  \/ last'.op = "Tick" /\ timeLeft' <= 0

C6_ScoreDelta ==
  [][/\ score' > score =>
          /\ score' = score + 1
          /\ FeedbackStep
          /\ ~FeedbackThrows(St)
          /\ last'.index = quizData[currentQuestionIndex + 1].answer_index
     /\ ( /\ FeedbackStep
          /\ \/ FeedbackThrows(St)
             \/ last'.index # quizData[currentQuestionIndex + 1].answer_index )
        => score' = score
    ]_vars

\* a selection of the correct option has been scored
C6_Witness ==
  /\ last.op = "FeedbackTimeout"
  /\ ~last.threw
  /\ last.index = quizData[currentQuestionIndex + 1].answer_index
  /\ score = 1

(***************************************************************************)
(* C7: a retreat from a position > 0 directly followed by an advance        *)
(* returns to the position, the score and the recorded answers the          *)
(* retreat started from.                                                    *)
(***************************************************************************)
C7_RetreatAdvance ==
  (last.op \in {"NextQuestion", "AdvanceTimeout"} /\ last.pre.index > 0) =>
    /\ currentQuestionIndex = last.pre.index
    /\ score = last.pre.score
    /\ selectedAnswers = last.pre.answers

\* retreat then advance on a session with a score and a recorded answer
C7_Witness ==
  /\ last.op = "NextQuestion"
  /\ last.pre.index > 0
  /\ last.pre.score > 0
  /\ last.pre.answers # <<>>
  /\ section = "quiz"

(***************************************************************************)
(* C8: when the countdown of a question reaches zero, the feedback path     *)
(* has run with no selection: the score is unchanged and an auto-advance    *)
(* is scheduled, which eventually fires.                                    *)
(***************************************************************************)
Expired == last.op = "Tick" /\ timeLeft = 0 /\ ~last.threw

C8_TimeoutAdvances ==
  /\ [](Expired => /\ score = last.pre.score
                   /\ BagIn(AdvanceCb, pending)
                   /\ disp.advances >= 1
                   /\ btnDisabled = (nButtons > 0))
  /\ [][last'.op = "AdvanceTimeout" =>
          IF currentQuestionIndex < Len(quizData) - 1
          THEN currentQuestionIndex' = currentQuestionIndex + 1 /\ section' = "quiz"
          ELSE currentQuestionIndex' = currentQuestionIndex /\ section' = "results"
       ]_vars
  /\ (Expired ~> last.op = "AdvanceTimeout")

\* the thirty ticks of the first question have elapsed with no selection
C8_Witness ==
  /\ Expired
  /\ selectedAnswers = <<>>
  /\ currentQuestionIndex = 0
  /\ pending = SetToBag({AdvanceCb})

(***************************************************************************)
(* C9: at no time are two generation requests in flight.                    *)
(***************************************************************************)
C9_OneRequest == BagCardinality(inflight) <= 1

(***************************************************************************)
(* C10: the response of a request that a later start has superseded adds    *)
(* no question to the session.                                              *)
(***************************************************************************)
C10_NoStaleResponse ==
  ~(last.op = "FetchResolve" /\ last.superseded /\ last.added > 0)

(***************************************************************************)
(* C11: a round that fails (a rejected input, a non-2xx response, no        *)
(* question array or an empty one, a network error, no accepted question    *)
(* on start) leaves topic, question list, previousQuestions, position,      *)
(* score and section as they were when the round began.                     *)
(***************************************************************************)
RoundOps == {"StartRound", "MoreRound"}

C11_FailureKeepsState ==
  [][(last'.op \in RoundOps /\ ~last'.ok) =>
        /\ currentTopic' = currentTopic
        /\ quizData' = quizData
        /\ previousQuestions' = previousQuestions
        /\ currentQuestionIndex' = currentQuestionIndex
        /\ score' = score
        /\ section' = section
    ]_vars

(***************************************************************************)
(* C12: a generate-more round, from the click to its completion, leaves     *)
(* the position, the score, the recorded answers and the running countdown  *)
(* (handle, interval, remaining seconds) unchanged, and the questions that  *)
(* were in the list stay as its prefix.                                     *)
(***************************************************************************)
IsPrefix(s, t) == Len(s) <= Len(t) /\ SubSeq(t, 1, Len(s)) = s

FreshIndices(qd, prev, arr) ==
  {j \in 1..Len(arr) :
     /\ Trim(arr[j].question) # <<>>
     /\ \A i \in 1..Len(qd) : Trim(qd[i].question) # Trim(arr[j].question)
     /\ \A i \in 1..Len(prev) : prev[i] # Trim(arr[j].question)
     /\ \A i \in 1..(j - 1) : Trim(arr[i].question) # Trim(arr[j].question)}

\* the place of j among the indices J
Rank(J, j) == Cardinality({i \in J : i <= j})

\* the step appends the fresh candidates of arr to the list qd and the
\* ledger prev the response met
Appends(qd, prev, arr) ==
  LET J == FreshIndices(qd, prev, arr)
      n == Cardinality(J)
  IN /\ last'.added = n
     /\ Len(quizData') = Len(qd) + n
     /\ Len(previousQuestions') = Len(prev) + n
     /\ IsPrefix(qd, quizData')
     /\ IsPrefix(prev, previousQuestions')
     /\ \A j \in J :
          /\ quizData'[Len(qd) + Rank(J, j)].question = Trim(arr[j].question)
          /\ previousQuestions'[Len(prev) + Rank(J, j)] = Trim(arr[j].question)

\* the response arrays a round that has just run may have received
ArraysOf(ev) ==
  {resp \in Responses :
     resp.kind = "ok" /\ Candidates(resp) = ev.added + ev.skipped}

LenMet == IF last'.op = "StartRound" THEN 0 ELSE Len(quizData)

C14_ZeroAccepted ==
  [][(last'.op \in RoundOps /\ last'.kind = "ok" /\ last'.added = 0) =>
        IF LenMet = 0
        THEN /\ ~last'.ok
             /\ last'.alert # ""
             /\ ~Active'
        ELSE /\ quizData' = quizData
             /\ previousQuestions' = previousQuestions
             /\ currentQuestionIndex' = currentQuestionIndex
             /\ score' = score
    ]_vars

(***************************************************************************)
(* C15: a restart on a list with at least one question sets the position    *)
(* and the score to 0 and empties the answers, keeps the list, the topic    *)
(* and previousQuestions, and makes the session active with exactly one     *)
(* countdown at 30; and a feedback or auto-advance callback that was        *)
(* pending at the restart (it fires as the next event: the restart sets     *)
(* no timeout) changes neither the position nor the score of the new run.   *)
(***************************************************************************)
TimeoutOps == {"FeedbackTimeout", "AdvanceTimeout"}

C15_RestartClean ==
  /\ [][(last'.op = "RestartQuiz" /\ Len(quizData) > 0) =>
          /\ currentQuestionIndex' = 0
          /\ score' = 0
          /\ selectedAnswers' = <<>>
          /\ quizData' = quizData
          /\ currentTopic' = currentTopic
          /\ previousQuestions' = previousQuestions
          /\ Active'
          /\ timerHandle' # NULL
          /\ intervals' = {timerHandle'}
          /\ timeLeft' = QUESTION_SECONDS
      ]_vars
  /\ [][(last.op = "RestartQuiz" /\ last'.op \in TimeoutOps) =>
          /\ currentQuestionIndex' = currentQuestionIndex
          /\ score' = score
      ]_vars

(***************************************************************************)
(* C16: an advance stops the running countdown; when a next question        *)
(* exists it increments the position by exactly 1 and a fresh countdown     *)
(* runs at 30; otherwise (the current question is the last) the results     *)
(* are shown with no countdown running and the position unchanged.  The     *)
(* results section is entered only by such an advance.                      *)
(***************************************************************************)
AdvanceOps == {"NextQuestion", "AdvanceTimeout"}

HasNext == currentQuestionIndex < Len(quizData) - 1

C17_Retreat ==
  [][last'.op = "PreviousQuestion" =>
        /\ score' = score
        /\ selectedAnswers' = selectedAnswers
        /\ IF currentQuestionIndex = 0
           THEN /\ currentQuestionIndex' = 0
                /\ timerHandle' = timerHandle
                /\ intervals' = intervals
                /\ timeLeft' = timeLeft
           ELSE /\ currentQuestionIndex' = currentQuestionIndex - 1
                /\ timerHandle' # NULL
                /\ intervals' = {timerHandle'}
                /\ timeLeft' = QUESTION_SECONDS
    ]_vars

\* a retreat from the second question of a quiz with a score and a
\* recorded answer
C17_Witness ==
  /\ last.op = "PreviousQuestion"
  /\ last.pre.index = 1
  /\ last.pre.score > 0
  /\ currentQuestionIndex = 0
  /\ selectedAnswers # <<>>
  /\ timeLeft = QUESTION_SECONDS

(***************************************************************************)
(* C18: a start whose topic is empty after trimming, or whose entered       *)
(* count is not in 1..20 (0 included), sends no request and leaves topic,   *)
(* count, list, previousQuestions, score and position unchanged; and a      *)
(* request that a start sends carries the count entered, which is in        *)
(* 1..20.                                                                   *)
(***************************************************************************)
\* the count typed into the modal is a number in 1..20
EnteredInRange(ev) ==
  /\ IsNumber(ev.entered)
  /\ MIN_COUNT <= ValueOf(ev.entered)
  /\ ValueOf(ev.entered) <= MAX_COUNT

C18_StartValidation ==
  [][last'.op = "StartRound" =>
        /\ (Trim(last'.topicInput) = <<>> \/ ~EnteredInRange(last')) =>
              /\ last'.sent = NoSent
              /\ currentTopic' = currentTopic
              /\ currentCount' = currentCount
              /\ quizData' = quizData
              /\ previousQuestions' = previousQuestions
              /\ score' = score
              /\ currentQuestionIndex' = currentQuestionIndex
        /\ last'.sent # NoSent =>
              /\ EnteredInRange(last')
              /\ last'.sent.count = ValueOf(last'.entered)
    ]_vars

(***************************************************************************)
(* C19: previousQuestions only grows at its end, except in a start that     *)
(* sends its request, the only step that empties it: navigation, finish,    *)
(* restart and generate-more rounds keep its entries and their order; and   *)
(* the text of every question of the list is an entry of it.                *)
(***************************************************************************)
StartSent == last'.op \in {"StartRound", "ModalStart"} /\ last'.sent # NoSent

C19_Ledger ==
  /\ [][~StartSent => IsPrefix(previousQuestions, previousQuestions')]_vars
  /\ [](\A i \in 1..Len(quizData) :
          \E k \in 1..Len(previousQuestions) :
            previousQuestions[k] = Trim(quizData[i].question))

\* a finished quiz of two questions has been restarted with its two entries
C19_Witness ==
  /\ last.op = "RestartQuiz"
  /\ section = "quiz"
  /\ Len(quizData) = 2
  /\ Len(previousQuestions) = 2

(***************************************************************************)
(* C20: every question of the session list has exactly 4 options, whatever  *)
(* the number of options of the provider's item was.                        *)
(***************************************************************************)
C20_FourOptions ==
  \A i \in 1..Len(quizData) : quizData[i].options = MAX_OPTIONS

(***************************************************************************)
(* C21: the correct index of every question the server's normalization      *)
(* returns, and of every question of the client's session list, lies in     *)
(* 0..3.                                                                    *)
(***************************************************************************)
C21_IndexClamped ==
  /\ \A i \in 1..Len(srv.out.questions) :
       ValueOf(srv.out.questions[i].answer_index) \in 0..MAX_ANSWER_INDEX
  /\ \A i \in 1..Len(quizData) :
       quizData[i].answer_index \in 0..MAX_ANSWER_INDEX

(***************************************************************************)
(* C22: the questions of a successful response are the provider's items     *)
(* with a non-empty trimmed question text, in the provider's order, cut to  *)
(* the first `count` of them and never more than that; when all N items     *)
(* are well-formed (text, 4 options, index in 0..3) and N <= count, N       *)
(* questions are returned with the correct index of the items.              *)
(***************************************************************************)
NonBlank(arr) == SelectSeq(arr, LAMBDA it : Trim(it.question) # <<>>)

WellFormed(it) ==
  /\ Trim(it.question) # <<>>
  /\ it.options = Num(MAX_OPTIONS)
  /\ IsNumber(it.answer_index)
  /\ ValueOf(it.answer_index) \in 0..MAX_ANSWER_INDEX

Answered == srv.out.status = 200 /\ srv.req.text.kind = "array"

C22_Normalize ==
  Answered =>
    LET arr == srv.req.text.arr
        count == srv.req.body.count.n
        out == srv.out.questions
    IN /\ Len(out) = Min(count, Len(NonBlank(arr)))
       /\ \A i \in 1..Len(out) : out[i].question = Trim(NonBlank(arr)[i].question)
       /\ (Len(arr) <= count /\ \A i \in 1..Len(arr) : WellFormed(arr[i]))
            => /\ Len(out) = Len(arr)
               /\ \A i \in 1..Len(arr) : out[i].answer_index = arr[i].answer_index

\* two items with text were returned for a count of 1: one question, the first
C22_Witness ==
  /\ Answered
  /\ Len(NonBlank(srv.req.text.arr)) > srv.req.body.count.n
  /\ Len(srv.out.questions) = srv.req.body.count.n

(***************************************************************************)
(* C23: of the requests of one address, at most 12 are admitted in any      *)
(* window of 60 seconds (an admitted request and the twelfth admitted       *)
(* after it are at least 60 seconds apart); a request is answered 429       *)
(* exactly when 12 or more requests of its address fall into the 60         *)
(* seconds before it; and a request changes nothing that is kept for        *)
(* another address.                                                         *)
(***************************************************************************)
Prior(a) == Len(InWindow(srv.requests[a], srv.now))

C23_RateLimit ==
  /\ [](\A a \in Addresses :
          \A i \in (RATE_LIMIT + 1)..Len(srv.admitted[a]) :
            srv.admitted[a][i] - srv.admitted[a][i - RATE_LIMIT] >= RATE_WINDOW_MS)
  /\ [][last'.op = "Request" =>
          /\ (Prior(srv'.req.ip) >= RATE_LIMIT) <=> (srv'.out.status = 429)
          /\ \A b \in Addresses \ {srv'.req.ip} :
               /\ srv'.requests[b] = srv.requests[b]
               /\ srv'.admitted[b] = srv.admitted[b]]_vars

\* half a window after its first requests, address a is refused while
\* address b has been admitted
C23_Witness ==
  /\ srv.req.ip = "a"
  /\ srv.out.status = 429
  /\ srv.now > 0
  /\ srv.requests["a"][1] = 0
  /\ Len(srv.admitted["b"]) > 0

(***************************************************************************)
(* C24: a request that passes the rate limiter is answered 400 when its     *)
(* topic is no string of at least 3 characters after trimming, 400 when     *)
(* its count is given and is no integer in 1..20, and 500 when topic and    *)
(* count are valid and the server has no credentials; in each of these      *)
(* cases no model of the provider is called.                                *)
(***************************************************************************)
Admitted ==
  /\ last.op = "Request"
  /\ Len(srv.requests[srv.req.ip]) <= RATE_LIMIT

ShortTopic(body) == ~body.topicIsString \/ Len(Trim(body.topic)) < MIN_TOPIC

BadCount(body) ==
  /\ body.count.kind # "absent"
  /\ \/ body.count.kind # "int"
     \/ body.count.n \notin MIN_COUNT..MAX_COUNT

C24_Validation ==
  Admitted =>
    LET body == srv.req.body
    IN /\ ShortTopic(body) => srv.out.status = 400 /\ srv.calls = <<>>
       /\ BadCount(body) => srv.out.status = 400 /\ srv.calls = <<>>
       /\ (~srv.key /\ ~ShortTopic(body) /\ ~BadCount(body))
            => srv.out.status = 500 /\ srv.calls = <<>>

\* a topic of two characters between blanks was answered 400
C24_Witness ==
  /\ Admitted
  /\ srv.req.body.topic = <<" ", "x", "y", " ">>
  /\ srv.out.status = 400
  /\ srv.calls = <<>>

(***************************************************************************)
(* C27: the models are asked in the order of the candidate list; a model    *)
(* that is not found makes the server ask the next one, the first model     *)
(* that generates non-empty text is the last one asked, and so is a model   *)
(* whose call fails in another way (the answer is then 500); the answer is  *)
(* 502 with the list of the candidates only when every candidate was not    *)
(* found.                                                                   *)
(***************************************************************************)
ProviderAsked == last.op = "Request" /\ srv.calls # <<>>

C27_ModelFallback ==
  ProviderAsked =>
    LET run == srv.req.run
        n == Len(srv.calls)
    IN /\ srv.calls = SubSeq(ModelCandidates, 1, n)
       /\ \A i \in 1..n :
            /\ (run[i] = "notfound" /\ i < Len(ModelCandidates)) => i < n
            /\ run[i] = "text" => i = n /\ srv.out.status # 502
            /\ run[i] = "error" => i = n /\ srv.out.status = 500
       /\ srv.out.status = 502 =>
            /\ srv.out.tried_models = ModelCandidates
            /\ \A i \in 1..Len(ModelCandidates) : run[i] = "notfound"

(***************************************************************************)
(* C25: when a quiz of T >= 1 questions is finished with score s, the       *)
(* values shown are correct = s, wrong = T - s and not negative, percent =  *)
(* s / T * 100 rounded to the nearest integer and in 0..100, and the whole  *)
(* seconds since the start, at least 1.                                     *)
(***************************************************************************)
JustFinished == last.results.shown /\ Len(quizData) >= 1

C25_Statistics ==
  JustFinished =>
    LET r == last.results
        total == Len(quizData)
    IN /\ r.correct = score
       /\ r.wrong = total - score
       /\ r.wrong >= 0
       /\ IsNumber(r.percent)
       /\ \E p \in 0..100 :
            /\ r.percent = Num(p)
            /\ 2 * p * total - total <= 200 * score
            /\ 200 * score < 2 * p * total + total
       /\ r.totalSecs >= 1
       /\ r.clock >= 1000 =>
            r.totalSecs * 1000 <= r.clock /\ r.clock < (r.totalSecs + 1) * 1000

(***************************************************************************)
(* C26: outside the Active state (before the quiz is shown, while a start   *)
(* is loading, after the quiz is finished) no selection, no feedback        *)
(* callback and no tick of the countdown changes the score, the recorded    *)
(* answers or the position.                                                 *)
(***************************************************************************)
SubmissionOps == {"OptionClick", "KeyDigit", "FeedbackTimeout", "Tick"}

C26_OnlyActive ==
  [][(~Active /\ last'.op \in SubmissionOps) =>
       /\ score' = score
       /\ selectedAnswers' = selectedAnswers
       /\ currentQuestionIndex' = currentQuestionIndex]_vars

(***************************************************************************)
(* C28: in a quiz without selections, the expiry of a question's countdown  *)
(* gives one feedback step with one auto-advance: a tick that comes after   *)
(* the countdown has reached zero schedules nothing, and no display of a    *)
(* question gets a second auto-advance (which would skip the question that  *)
(* the first one displays).                                                 *)
(***************************************************************************)
C28_OneExpiry ==
  /\ [][(last'.op = "Tick" /\ timeLeft <= 0) => pending' = pending]_vars
  /\ [](disp.advances <= 1)

(***************************************************************************)
(* C29: the remaining time is always in 0..30.                              *)
(***************************************************************************)
C29_TimeLeftRange == timeLeft \in 0..QUESTION_SECONDS

(***************************************************************************)
(* C30: the score is never negative, never more than the number of          *)
(* questions of the list, and never more than the number of positions       *)
(* with a selection since the last start or restart (a position with a      *)
(* correct selection is one of them: selectedAnswers keeps an entry for     *)
(* every position selected at and is emptied by start and restart).         *)
(***************************************************************************)
C30_ScoreRange ==
  /\ score \in 0..Len(quizData)
  /\ score <= Cardinality(DOMAIN selectedAnswers)

(***************************************************************************)
(* C31: a selection is scored against the question that was current when    *)
(* it was made.  onOptionClicked records the selection at its position,     *)
(* and start and restart empty the record, so the feedback step of a        *)
(* selection compares at a position that has a recorded selection; it       *)
(* never compares at a position that an advance, a retreat or a restart     *)
(* has moved to since and at which nothing has been selected.               *)
(***************************************************************************)
C31_OwnQuestion ==
  (last.op = "FeedbackTimeout" /\ ~last.threw) =>
    currentQuestionIndex \in DOMAIN selectedAnswers

(***************************************************************************)
(* C32: no countdown interval is live while the session is not Active:      *)
(* before the quiz is shown, while a start is loading (also a start made    *)
(* while a quiz was being played) and after the quiz is finished,           *)
(* timerHandle is null and there is no interval that could tick.            *)
(***************************************************************************)
C32_NoTimerOutsideActive ==
  ~Active => (timerHandle = NULL /\ intervals = {})

(***************************************************************************)
(* C33: once the user of a quiz that is being played does nothing more,     *)
(* and the browser keeps running the interval and the timeouts that are     *)
(* due, the results are eventually shown, and the score stays what it was   *)
(* when the user stopped: no step of the countdown or of a delayed          *)
(* callback changes it.  (The user can stop at any moment, so every such    *)
(* step comes after a moment at which the user may have stopped.)           *)
(***************************************************************************)
CallbackOps == {"Tick", "FeedbackTimeout", "AdvanceTimeout"}

C33_IdleFinishes ==
  /\ [][last'.op \in CallbackOps => score' = score]_vars
  /\ ([]<><<last'.op \notin CallbackOps>>_vars) \/ []<>(section = "results")

====
